---------------------------- MODULE Spec2Model ----------------------------
(***************************************************************************)
(* A model of BatteryCycleiOS.cpp: the tar-over-gzip reader, the two-pass  *)
(* "latest BDC_Daily file" selection, the date parser, the octal field     *)
(* parser and the CSV field accessor.                                      *)
(*                                                                         *)
(* C strings are sequences of one-character strings (without the           *)
(* terminator).  A fixed-width header field is a sequence that may hold    *)
(* the character NUL.                                                      *)
(***************************************************************************)
EXTENDS Integers, Sequences, FiniteSets, TLC

(***************************************************************************)
(* Characters                                                              *)
(***************************************************************************)
NUL == "\\0"
SP == " "
TAB == "\t"
CR == "\r"
LF == "\n"
QUOTE == "\""
COMMA == ","

DigitChars == <<"0", "1", "2", "3", "4", "5", "6", "7", "8", "9">>

IsDigit(c) == \E d \in 1..10 : DigitChars[d] = c

DigitVal(c) == (CHOOSE d \in 1..10 : DigitChars[d] = c) - 1

Min(a, b) == IF a < b THEN a ELSE b

Max(a, b) == IF a > b THEN a ELSE b

(***************************************************************************)
(* The C library functions the program calls, on sequences of characters.  *)
(* Positions are 1-based; 0 stands for the null pointer.                   *)
(***************************************************************************)
\* the string from position i (the pointer s + i - 1)
StrFrom(s, i) == SubSeq(s, i, Len(s))

\* strstr(h, n) != NULL
strstr(h, n) ==
    \E i \in 1..(Len(h) - Len(n) + 1) : SubSeq(h, i, i + Len(n) - 1) = n

\* strncmp(a, b, n) == 0
strncmpEq(a, b, n) == SubSeq(a, 1, Min(n, Len(a))) = SubSeq(b, 1, Min(n, Len(b)))

\* strcmp(a, b) == 0
strcmpEq(a, b) == a = b

RECURSIVE FirstFrom(_, _, _, _)
\* the first position of c among the positions lo..hi of s, 0 when there is
\* none; the range is halved, so that a long string is no deep recursion
FirstFrom(s, c, lo, hi) ==
    IF lo > hi THEN 0
    ELSE IF lo = hi THEN (IF s[lo] = c THEN lo ELSE 0)
    ELSE LET mid == (lo + hi) \div 2
             l == FirstFrom(s, c, lo, mid)
         IN  IF l # 0 THEN l ELSE FirstFrom(s, c, mid + 1, hi)

RECURSIVE LastFrom(_, _, _)
LastFrom(s, c, i) ==
    IF i = 0 THEN 0 ELSE IF s[i] = c THEN i ELSE LastFrom(s, c, i - 1)

\* strchr(s, c): the first position of c in s, 0 when there is none
strchr(s, c) == FirstFrom(s, c, 1, Len(s))

\* strrchr(s, c): the last position of c in s, 0 when there is none
strrchr(s, c) == LastFrom(s, c, Len(s))

\* the C string a NUL-padded buffer holds: the characters before the first NUL
CStr(buf) ==
    LET z == strchr(buf, NUL)
    IN  IF z = 0 THEN buf ELSE SubSeq(buf, 1, z - 1)

\* strncpy_s(dst, nBufSize, src, _TRUNCATE): copies at most nBufSize - 1
\* characters; returns STRUNCATE (non-zero) when src did not fit
strncpy_s_TRUNCATE(nBufSize, src) ==
    [err |-> Len(src) >= nBufSize,
     dst |-> SubSeq(src, 1, Min(Len(src), nBufSize - 1))]

(***************************************************************************)
(* unsigned long.  The program is built for Windows (windows.h, the _s     *)
(* functions), where unsigned long has 32 bits.  A value is kept as limbs  *)
(* of 16 bits, least significant first, so that the wrap at 2^32 is        *)
(* computed exactly; an exact (unbounded) value has one more limb than a   *)
(* 12-digit octal field can fill.                                          *)
(***************************************************************************)
LimbBase == 2 ^ 16

ULONG_LIMBS == 2

ExactLimbs == ULONG_LIMBS + 1

ZeroLimbs(n) == [k \in 1..n |-> 0]

RECURSIVE MulAddLimbs(_, _, _, _)
\* v * m + c on limbs from limb k on; the carry out of the last limb is lost
MulAddLimbs(v, m, c, k) ==
    IF k > Len(v) THEN v
    ELSE LET t == v[k] * m + c
         IN  MulAddLimbs([v EXCEPT ![k] = t % LimbBase], m, t \div LimbBase, k + 1)

RECURSIVE AddLimbs(_, _, _)
\* v + c * LimbBase^(k-1), wrapping at the width of v
AddLimbs(v, c, k) ==
    IF k > Len(v) \/ c = 0 THEN v
    ELSE LET t == v[k] + c
         IN  AddLimbs([v EXCEPT ![k] = t % LimbBase], t \div LimbBase, k + 1)

RECURSIVE DivLimbs(_, _, _, _)
\* v \div d for a small d, from the most significant limb k down, with remainder r
DivLimbs(v, d, r, k) ==
    IF k = 0 THEN v
    ELSE LET t == r * LimbBase + v[k]
         IN  DivLimbs([v EXCEPT ![k] = t \div d], d, t % d, k - 1)

\* a value widened (or cut) to n limbs
ToLimbs(v, n) == [k \in 1..n |-> IF k <= Len(v) THEN v[k] ELSE 0]

\* the integer a limb value stands for, when it is small enough to be one
LimbsToInt(v) == v[1] + (IF Len(v) > 1 THEN v[2] * LimbBase ELSE 0)

IsSmallLimbs(v) == \A k \in 1..Len(v) : (k = 2 => v[k] < 2 ^ 14) /\ (k > 2 => v[k] = 0)

(***************************************************************************)
(* ulParseOctal                                                            *)
(***************************************************************************)
IsOctalDigit(c) == IsDigit(c) /\ DigitVal(c) <= 7

RECURSIVE SkipPad(_, _, _)
\* for (i = 0; i < nSize && (szStr[i] == ' ' || szStr[i] == '\0'); i++);
SkipPad(szStr, nSize, i) ==
    IF i <= nSize /\ (szStr[i] = SP \/ szStr[i] = NUL)
    THEN SkipPad(szStr, nSize, i + 1)
    ELSE i

RECURSIVE OctalLoop(_, _, _, _)
\* the digit loop, on a result of Len(ulResult) limbs
OctalLoop(szStr, nSize, i, ulResult) ==
    IF i <= nSize /\ szStr[i] # SP /\ szStr[i] # NUL /\ IsOctalDigit(szStr[i])
    THEN OctalLoop(szStr, nSize, i + 1, MulAddLimbs(ulResult, 8, DigitVal(szStr[i]), 1))
    ELSE ulResult

\* the limbs of the unsigned long the function returns
ulParseOctal(szStr, nSize) ==
    OctalLoop(szStr, nSize, SkipPad(szStr, nSize, 1), ZeroLimbs(ULONG_LIMBS))

TAR_BLOCK_SIZE == 512

\* size_t nBlocks = (ulFileSize + TAR_BLOCK_SIZE - 1) / TAR_BLOCK_SIZE;
\* the sum is an unsigned long and wraps like one
nBlocksOf(ulFileSize) ==
    DivLimbs(AddLimbs(ulFileSize, TAR_BLOCK_SIZE - 1, 1), TAR_BLOCK_SIZE, 0,
             Len(ulFileSize))

(***************************************************************************)
(* sscanf_s(szDateStr, "%d-%d-%d_%d:%d:%d", ...)                           *)
(***************************************************************************)
IsSpace(c) == c \in {SP, TAB, LF, CR}

RECURSIVE SkipSpace(_, _)
SkipSpace(s, i) == IF i <= Len(s) /\ IsSpace(s[i]) THEN SkipSpace(s, i + 1) ELSE i

RECURSIVE ScanDigits(_, _, _)
\* the digit run from position i: <<value, position after it>>
ScanDigits(s, i, acc) ==
    IF i <= Len(s) /\ IsDigit(s[i])
    THEN ScanDigits(s, i + 1, acc * 10 + DigitVal(s[i]))
    ELSE <<acc, i>>

\* one %d conversion from position i: white space is skipped, a sign is
\* accepted, then at least one digit is needed
ScanInt(s, i) ==
    LET j == SkipSpace(s, i)
        neg == j <= Len(s) /\ s[j] = "-"
        k == IF j <= Len(s) /\ s[j] \in {"-", "+"} THEN j + 1 ELSE j
        d == ScanDigits(s, k, 0)
    IN  [ok |-> d[2] > k, val |-> IF neg THEN 0 - d[1] ELSE d[1], next |-> d[2]]

DateSeparators == <<"-", "-", "_", ":", ":">>

RECURSIVE ScanDateFields(_, _, _)
\* the conversions done so far are in got; returns every field converted
ScanDateFields(s, i, got) ==
    LET n == Len(got)
        j == IF n = 0 THEN i
             ELSE IF i <= Len(s) /\ s[i] = DateSeparators[n] THEN i + 1 ELSE 0
        r == ScanInt(s, j)
    IN  IF n = 6 \/ j = 0 \/ ~r.ok THEN got
        ELSE ScanDateFields(s, r.next, Append(got, r.val))

\* the fields sscanf_s assigned; their number is its return value
sscanf_date(szDateStr) == ScanDateFields(szDateStr, 1, <<>>)

(***************************************************************************)
(* mktime.  A time_t is kept as [days, secs] (days since 1970-01-01 and    *)
(* seconds into the day), which orders like the number of seconds; the     *)
(* local zone is taken to have offset 0 and no daylight saving time.       *)
(***************************************************************************)
LeapsThrough(y) == (y \div 4) - (y \div 100) + (y \div 400)

IsLeap(y) == (y % 4 = 0 /\ y % 100 # 0) \/ y % 400 = 0

DaysBeforeMonth == <<0, 31, 59, 90, 120, 151, 181, 212, 243, 273, 304, 334>>

\* tm_mday past the end of the month is carried into the following month
mktime(tm_year, tm_mon, tm_mday, tm_hour, tm_min, tm_sec) ==
    LET y == tm_year + 1900
    IN  [days |-> 365 * (y - 1970) + LeapsThrough(y - 1) - LeapsThrough(1969)
                  + DaysBeforeMonth[tm_mon + 1]
                  + (IF IsLeap(y) /\ tm_mon + 1 > 2 THEN 1 ELSE 0)
                  + (tm_mday - 1),
         secs |-> tm_hour * 3600 + tm_min * 60 + tm_sec]

\* a > b on time_t
TimeGreater(a, b) == a.days > b.days \/ (a.days = b.days /\ a.secs > b.secs)

TimeMinusOne == [days |-> -1, secs |-> 86399]

(***************************************************************************)
(* bParseDate                                                              *)
(***************************************************************************)
DateFail == [ok |-> FALSE, f |-> <<>>, tTimestamp |-> [days |-> 0, secs |-> 0]]

\* the range checks on the six fields
DateComponentsValid(f) ==
    ~(f[1] < 1970 \/ f[1] > 2100 \/
      f[2] < 1 \/ f[2] > 12 \/
      f[3] < 1 \/ f[3] > 31 \/
      f[4] < 0 \/ f[4] > 23 \/
      f[5] < 0 \/ f[5] > 59 \/
      f[6] < 0 \/ f[6] > 59)

bParseDate(szDateStr) ==
    LET f == sscanf_date(szDateStr)
    IN  IF Len(f) # 6 THEN DateFail
        ELSE IF ~DateComponentsValid(f) THEN DateFail
        ELSE LET t == mktime(f[1] - 1900, f[2] - 1, f[3], f[4], f[5], f[6])
             IN  IF t = TimeMinusOne THEN DateFail
                 ELSE [ok |-> TRUE, f |-> f, tTimestamp |-> t]

(***************************************************************************)
(* nGetCSVDataByColName                                                    *)
(***************************************************************************)
MAX_COLUMNS == 256

MAX_BUFFER_SIZE == 1024

RECURSIVE TrimLeft(_)
\* while (*szValue == ' ' || *szValue == '\t' || *szValue == '"') szValue++;
TrimLeft(s) ==
    IF Len(s) > 0 /\ s[1] \in {SP, TAB, QUOTE} THEN TrimLeft(Tail(s)) ELSE s

RECURSIVE TrimRight(_)
\* pEnd starts at the last character and moves back while pEnd > szValue
TrimRight(s) ==
    IF Len(s) > 1 /\ s[Len(s)] \in {SP, TAB, QUOTE, CR}
    THEN TrimRight(SubSeq(s, 1, Len(s) - 1))
    ELSE s

\* the token as the code cuts it out of the line
TrimToken(s) == TrimRight(TrimLeft(s))

\* one iteration of the header loop, at position i; an iteration after the
\* loop has ended (nColumnCount has reached MAX_COLUMNS) changes nothing
HeaderStep(h, i, st) ==
    IF Len(st.cols) >= MAX_COLUMNS THEN st
    ELSE IF h[i] = QUOTE THEN [st EXCEPT !.bInQuotes = ~st.bInQuotes]
    ELSE IF h[i] = COMMA /\ ~st.bInQuotes
    THEN [st EXCEPT !.nTokenStart = i + 1,
                    !.cols = Append(st.cols, TrimToken(SubSeq(h, st.nTokenStart, i - 1)))]
    ELSE st

RECURSIVE HeaderLoop(_, _, _, _)
\* the iterations at the positions lo..hi, in order; the range is halved, so
\* that a long line is no deep recursion (the test on the state after the
\* first half has it computed before the second half starts)
HeaderLoop(h, lo, hi, st) ==
    IF lo > hi THEN st
    ELSE IF lo = hi THEN HeaderStep(h, lo, st)
    ELSE LET mid == (lo + hi) \div 2
             half == HeaderLoop(h, lo, mid, st)
         IN  IF half.nTokenStart > 0 THEN HeaderLoop(h, mid + 1, hi, half) ELSE half

\* the header loop and the handling of the last column: the column names
HeaderScan(h) ==
    LET st == HeaderLoop(h, 1, Len(h),
                         [bInQuotes |-> FALSE, nTokenStart |-> 1, cols |-> <<>>])
    IN  IF Len(st.cols) < MAX_COLUMNS
        THEN Append(st.cols, TrimToken(SubSeq(h, st.nTokenStart, Len(h))))
        ELSE st.cols

\* the index (from 0) of the first column named szColName, -1 when none
TargetColumn(cols, szColName) ==
    IF \E k \in 1..Len(cols) : strcmpEq(cols[k], szColName)
    THEN (CHOOSE k \in 1..Len(cols) :
              strcmpEq(cols[k], szColName)
              /\ \A j \in 1..(k - 1) : ~strcmpEq(cols[j], szColName)) - 1
    ELSE -1

RECURSIVE SkipRows(_, _, _)
\* nRow >= 0: the position of row nRow in the text, 0 when the text ends first
SkipRows(text, cur, nRow) ==
    IF nRow = 0 THEN cur
    ELSE LET nl == strchr(StrFrom(text, cur), LF)
         IN  IF nl = 0 THEN 0 ELSE SkipRows(text, cur + nl, nRow - 1)

RECURSIVE LastRowStart(_, _, _)
\* nRow == -1: pLastRowStart when the loop breaks
LastRowStart(text, cur, pLastRowStart) ==
    LET nl == strchr(StrFrom(text, cur), LF)
    IN  IF nl = 0 THEN pLastRowStart ELSE LastRowStart(text, cur + nl, cur)

\* the row that starts at position cur: up to the next newline or the end
RowAt(text, cur) ==
    LET nl == strchr(StrFrom(text, cur), LF)
    IN  IF nl = 0 THEN StrFrom(text, cur) ELSE SubSeq(text, cur, cur + nl - 2)

\* one iteration of the row loop, at position i; an iteration after the
\* function has returned the value or the loop has ended changes nothing
RowStep(row, i, nTargetCol, st) ==
    IF st.found \/ st.nCurrentCol > nTargetCol THEN st
    ELSE IF row[i] = QUOTE THEN [st EXCEPT !.bInQuotes = ~st.bInQuotes]
    ELSE IF row[i] = COMMA /\ ~st.bInQuotes
    THEN IF st.nCurrentCol = nTargetCol
         THEN [st EXCEPT !.found = TRUE,
                         !.szValue = TrimToken(SubSeq(row, st.nTokenStart, i - 1))]
         ELSE [st EXCEPT !.nCurrentCol = st.nCurrentCol + 1, !.nTokenStart = i + 1]
    ELSE st

RECURSIVE RowLoop(_, _, _, _, _)
\* the iterations at the positions lo..hi, in order
RowLoop(row, lo, hi, nTargetCol, st) ==
    IF lo > hi THEN st
    ELSE IF lo = hi THEN RowStep(row, lo, nTargetCol, st)
    ELSE LET mid == (lo + hi) \div 2
             half == RowLoop(row, lo, mid, nTargetCol, st)
         IN  IF half.nTokenStart > 0 THEN RowLoop(row, mid + 1, hi, nTargetCol, half)
             ELSE half

\* the row loop and the check of the last column
RowScan(row, nTargetCol) ==
    LET st == RowLoop(row, 1, Len(row), nTargetCol,
                      [bInQuotes |-> FALSE, nCurrentCol |-> 0, nTokenStart |-> 1,
                       found |-> FALSE, szValue |-> <<>>])
    IN  IF st.found THEN [found |-> TRUE, szValue |-> st.szValue]
        ELSE IF st.nCurrentCol = nTargetCol
        THEN [found |-> TRUE, szValue |-> TrimToken(SubSeq(row, st.nTokenStart, Len(row)))]
        ELSE [found |-> FALSE, szValue |-> <<>>]

CsvReturn(ret, szResult) == [ret |-> ret, szResult |-> szResult, oob |-> FALSE]

\* the text has no newline: szBufferCopy = pHeaderEnd + 1 is past the
\* terminator of the working copy and everything read from there is outside it
CsvOutOfBounds == [ret |-> 0, szResult |-> <<>>, oob |-> TRUE]

\* the position of the row the selector names in the text, 0 when not found
RowStart(text, first, nRow) ==
    IF nRow >= 0 THEN SkipRows(text, first, nRow)
    ELSE IF nRow = -1 THEN LastRowStart(text, first, first)
    ELSE first

nGetCSVDataByColName(szCsvBuffer, nRow, szColName, nBufSize) ==
    LET pHeaderEnd == strchr(szCsvBuffer, LF)
        header == IF pHeaderEnd = 0 THEN szCsvBuffer
                  ELSE SubSeq(szCsvBuffer, 1, pHeaderEnd - 1)
        nTargetCol == TargetColumn(HeaderScan(header), szColName)
        cur == RowStart(szCsvBuffer, pHeaderEnd + 1, nRow)
        r == RowScan(RowAt(szCsvBuffer, cur), nTargetCol)
        c == strncpy_s_TRUNCATE(nBufSize, r.szValue)
    IN  IF nBufSize <= 0 THEN CsvReturn(-1, <<>>)
        ELSE IF nTargetCol = -1 THEN CsvReturn(-3, <<>>)
        ELSE IF pHeaderEnd = 0 THEN CsvOutOfBounds
        ELSE IF cur = 0 THEN CsvReturn(-5, <<>>)
        ELSE IF ~r.found THEN CsvReturn(-4, <<>>)
        ELSE IF c.err THEN CsvReturn(-6, c.dst)
        ELSE CsvReturn(0, c.dst)

(***************************************************************************)
(* bIsInDirectory                                                          *)
(***************************************************************************)
bIsInDirectory(szPath, szTargetDir) ==
    LET nDirLen == Len(szTargetDir)
    IN  IF nDirLen > 0 /\ szTargetDir[nDirLen] # "/" /\ szTargetDir[nDirLen] # "\\"
        THEN strncmpEq(szPath, szTargetDir \o <<"/">>, nDirLen + 1)
        ELSE strncmpEq(szPath, szTargetDir, nDirLen)

(***************************************************************************)
(* The configuration main and nExtractLatestBdcDailyFile pass down.        *)
(***************************************************************************)
\* "logs/BatteryBDC/"
TargetDir ==
    <<"l", "o", "g", "s", "/", "B", "a", "t", "t", "e", "r", "y", "B", "D", "C", "/">>

\* "BDC_Daily_version"
szPrefix ==
    <<"B", "D", "C", "_", "D", "a", "i", "l", "y", "_", "v", "e", "r", "s", "i", "o", "n">>

ColTimeStamp == <<"T", "i", "m", "e", "S", "t", "a", "m", "p">>

ColCycleCount == <<"C", "y", "c", "l", "e", "C", "o", "u", "n", "t">>

MAX_PATH_LENGTH == 260

(***************************************************************************)
(* The matcher callbacks.  stData is the matcherDataT of the run.          *)
(***************************************************************************)
InitialData ==
    [stLatestFile |-> [szFilename |-> <<>>, tTimestamp |-> [days |-> 0, secs |-> 0]],
     bFoundMatch |-> FALSE]

\* szDatePart: the text after the first '_' that follows the prefix;
\* <<FALSE, ...>> when the name has no such part
DatePart(szFilename) ==
    LET rest == StrFrom(szFilename, Len(szPrefix) + 1)
        u == strchr(rest, "_")
    IN  IF u = 0 THEN <<FALSE, <<>>>> ELSE <<TRUE, StrFrom(rest, u + 1)>>

\* a variant that also replaces the record on a tie
ReplacesLatestOnTie(stData, tTimestamp) ==
    ~stData.bFoundMatch \/ ~TimeGreater(stData.stLatestFile.tTimestamp, tTimestamp)

\* first match, or newer than the previous match
ReplacesLatest(stData, tTimestamp) ==
    ~stData.bFoundMatch \/ TimeGreater(tTimestamp, stData.stLatestFile.tTimestamp)

\* bLatestBdcDailyMatcher: the matcherDataT after the call (it returns 0)
bLatestBdcDailyMatcher(szFilename, stData) ==
    LET dp == DatePart(szFilename)
        cp == strncpy_s_TRUNCATE(MAX_PATH_LENGTH, szFilename)
        d == bParseDate(dp[2])
    IN  IF ~strncmpEq(szFilename, szPrefix, Len(szPrefix)) THEN stData
        ELSE IF ~dp[1] THEN stData
        ELSE IF cp.err THEN stData
        ELSE IF ~d.ok THEN stData
        ELSE IF ReplacesLatest(stData, d.tTimestamp)
        THEN [stLatestFile |-> [szFilename |-> cp.dst, tTimestamp |-> d.tTimestamp],
              bFoundMatch |-> TRUE]
        ELSE stData

\* a variant that compares the first strlen(szPrefix) characters only
bExtractPrefixMatcher(szFilename, stData) ==
    strncmpEq(szFilename, stData.stLatestFile.szFilename, Len(szPrefix))

\* bExtractLatestFileMatcher: its return value
bExtractLatestFileMatcher(szFilename, stData) ==
    strcmpEq(szFilename, stData.stLatestFile.szFilename)

(***************************************************************************)
(* The archives the program is run on.  An archive is a sequence of        *)
(* entries taken from EntryPool; the decompressed stream is its sequence   *)
(* of 512-byte blocks: per entry a header block and the data blocks, then  *)
(* two zero blocks.  The data of an entry is a text followed by NUL bytes  *)
(* up to its size.                                                         *)
(***************************************************************************)
MaxEntries == 3

RECURSIVE OctalDigits(_, _)
\* n in k octal digits
OctalDigits(n, k) ==
    IF k = 0 THEN <<>> ELSE Append(OctalDigits(n \div 8, k - 1), DigitChars[(n % 8) + 1])

\* the szSize field a tar writer stores for a size
OctalField(n) == Append(OctalDigits(n, 11), NUL)

NulField == [k \in 1..12 |-> NUL]

DateOld ==
    <<"2", "0", "2", "5", "-", "0", "5", "-", "1", "2", "_", "0", "8", ":",
      "0", "0", ":", "0", "0">>

DateNew ==
    <<"2", "0", "2", "5", "-", "0", "5", "-", "1", "4", "_", "2", "0", ":",
      "3", "0", ":", "4", "5">>

\* the same instant as DateNew, written with a one-digit month
DateNewLax ==
    <<"2", "0", "2", "5", "-", "5", "-", "1", "4", "_", "2", "0", ":", "3",
      "0", ":", "4", "5">>

DateNewest ==
    <<"2", "0", "2", "5", "-", "0", "5", "-", "1", "5", "_", "0", "0", ":",
      "0", "0", ":", "0", "0">>

ExtCsv == <<".", "c", "s", "v">>

NameNotes == <<"n", "o", "t", "e", "s", ".", "t", "x", "t">>

DirOther == <<"l", "o", "g", "s", "/", "O", "t", "h", "e", "r", "/">>

DirSub == <<"s", "u", "b", "/">>

DotDotSlash == <<".", ".", "/">>

DotDotBackslash == <<".", ".", "\\">>

TextBad == <<"b", "a", "d">>

CsvGood ==
    <<"T", "i", "m", "e", "S", "t", "a", "m", "p", ",", "C", "y", "c", "l",
      "e", "C", "o", "u", "n", "t", LF, "5", "1", "4", ",", "2", "5", "3",
      LF>>

CsvGoodSub ==
    <<"T", "i", "m", "e", "S", "t", "a", "m", "p", ",", "C", "y", "c", "l",
      "e", "C", "o", "u", "n", "t", LF, "5", "1", "2", ",", "2", "5", "1",
      LF>>

\* the data row has no CycleCount field
CsvRagged ==
    <<"T", "i", "m", "e", "S", "t", "a", "m", "p", ",", "C", "y", "c", "l",
      "e", "C", "o", "u", "n", "t", LF, "5", "1", "4", LF>>

\* the header has no TimeStamp column
CsvNoTimeStamp ==
    <<"T", "i", "m", "e", ",", "C", "y", "c", "l", "e", "C", "o", "u", "n",
      "t", LF, "5", "1", "4", ",", "2", "5", "3", LF>>

DailyName(date) == szPrefix \o <<"_">> \o date \o ExtCsv

Entry(szName, cTypeflag, nSize, data) ==
    [szName |-> szName, cTypeflag |-> cTypeflag, szSize |-> OctalField(nSize),
     nSize |-> nSize, data |-> data]

EntryPool ==
    << Entry(TargetDir \o DailyName(DateOld), "0", Len(CsvGood), CsvGood),
       Entry(TargetDir \o DailyName(DateNew), "0", Len(CsvRagged), CsvRagged),
       Entry(TargetDir \o DailyName(DateNewLax), NUL, TAR_BLOCK_SIZE + 1, CsvNoTimeStamp),
       Entry(TargetDir \o DirSub \o DailyName(DateNew), "0", Len(CsvGoodSub), CsvGoodSub),
       Entry(TargetDir \o DailyName(TextBad), "0", TAR_BLOCK_SIZE, CsvGood),
       Entry(TargetDir \o NameNotes, "0", 0, <<>>),
       Entry(DirOther \o DailyName(DateNewest), "0", TAR_BLOCK_SIZE + 1, CsvGood),
       Entry(TargetDir \o DotDotSlash \o DailyName(DateNewest), "0", Len(CsvGood), CsvGood),
       Entry(TargetDir \o DotDotBackslash \o DailyName(DateNewest), "0", 0, <<>>),
       Entry(TargetDir, "0", 0, <<>>),
       Entry(TargetDir \o DailyName(DateNewest), "2", 0, <<>>) >>

Archives == UNION {[1..n -> 1..Len(EntryPool)] : n \in 0..MaxEntries}

\* a block as the reader sees it when it takes it for a header; idx is the
\* place in the archive of the entry the block belongs to (0: a zero block),
\* pool the place in EntryPool of the entry a header block is the header of
HeaderBlock(k, idx) ==
    [idx |-> idx, pool |-> k, szName |-> EntryPool[k].szName,
     szSize |-> EntryPool[k].szSize, cTypeflag |-> EntryPool[k].cTypeflag,
     text |-> EntryPool[k].szName]

DataBlock(text, idx) ==
    [idx |-> idx, pool |-> 0, szName |-> SubSeq(text, 1, Min(100, Len(text))),
     szSize |-> NulField, cTypeflag |-> NUL, text |-> text]

BlocksFor(nSize) == (nSize + TAR_BLOCK_SIZE - 1) \div TAR_BLOCK_SIZE

RECURSIVE BlockAtFrom(_, _, _, _)
\* the block at offset p, looked for from entry i, whose header is at off
BlockAtFrom(a, i, off, p) ==
    IF i > Len(a) THEN DataBlock(<<>>, 0)
    ELSE LET e == EntryPool[a[i]]
             next == off + TAR_BLOCK_SIZE * (1 + BlocksFor(e.nSize))
         IN  IF p = off THEN HeaderBlock(a[i], i)
             ELSE IF p < next
             THEN DataBlock(IF p = off + TAR_BLOCK_SIZE THEN e.data ELSE <<>>, i)
             ELSE BlockAtFrom(a, i + 1, next, p)

\* the block of the decompressed stream of archive a at offset p (a
\* multiple of the block size): per entry the header block and the data
\* blocks, then zero blocks
BlockAt(a, p) == BlockAtFrom(a, 1, 0, p)

RECURSIVE HeaderOffset(_, _)
\* the stream offset of the header of entry i of archive a (of the first
\* zero block for i = Len(a) + 1)
HeaderOffset(a, i) ==
    IF i = 1 THEN 0
    ELSE HeaderOffset(a, i - 1)
         + TAR_BLOCK_SIZE * (1 + BlocksFor(EntryPool[a[i - 1]].nSize))

StreamBytes(a) == HeaderOffset(a, Len(a) + 1) + 2 * TAR_BLOCK_SIZE

\* where the stream may end: complete, or cut inside the header or inside
\* the data of the last entry (what follows a cut is never seen)
AvailChoices(a) ==
    {StreamBytes(a)} \cup
    (IF Len(a) = 0 THEN {}
     ELSE LET off == HeaderOffset(a, Len(a))
              n == EntryPool[a[Len(a)]].nSize
          IN  {off + 100} \cup
              (IF n > 0 THEN {off + TAR_BLOCK_SIZE + (n \div 2)} ELSE {}))

\* where the decompressor may meet corrupt data: nowhere (-1), or in the
\* header of the last entry
GzErrChoices(a) == {-1} \cup (IF Len(a) = 0 THEN {} ELSE {HeaderOffset(a, Len(a))})

(***************************************************************************)
(* State                                                                   *)
(***************************************************************************)
VARIABLES
    archive,    \* the entries of the archive file (places in EntryPool)
    avail,      \* the number of bytes the decompressed stream yields
    gzErrAt,    \* the offset of corrupt compressed data, -1 when none
    pc,         \* "pass1", "pass2": the scan that is running; "done"
    pos,        \* the offset of gzTarFile in the decompressed stream
    stData,     \* the matcherDataT of nExtractLatestBdcDailyFile
    nResult,    \* the value nExtractLatestBdcDailyFile (and main) returns
    printed,    \* what the run printed: <<>> or <<[cycle count, timestamp]>>
    winner,     \* history: the place of the entry stData was last taken from
    events,     \* history: what each loop iteration did
    call,       \* the arguments of a single call of one of the functions
    ret         \* the result of that call, <<>> before it

archVars == <<archive, avail, gzErrAt, pc, pos, stData, nResult, printed, winner, events>>

callVars == <<call, ret>>

vars == <<archive, avail, gzErrAt, pc, pos, stData, nResult, printed, winner, events,
          call, ret>>

NoCall == [fn |-> "none"]

(***************************************************************************)
(* nExtractLatestBdcDailyFile: the state when the first pass has opened    *)
(* the archive                                                             *)
(***************************************************************************)
Init ==
    /\ archive \in Archives
    /\ \E av \in AvailChoices(archive), ge \in GzErrChoices(archive) :
          /\ (ge # -1 => av = StreamBytes(archive))
          /\ avail = av
          /\ gzErrAt = ge
    /\ pc = "pass1"
    /\ pos = 0
    /\ stData = InitialData
    /\ nResult = 0
    /\ printed = <<>>
    /\ winner = 0
    /\ events = <<>>
    /\ call = NoCall
    /\ ret = <<>>

(***************************************************************************)
(* nExtractFromTargzWithCallback: one action per way an iteration of the   *)
(* main loop can go.  An iteration that leaves the loop also returns, and  *)
(* nExtractLatestBdcDailyFile goes on with the value returned.             *)
(***************************************************************************)
Scanning == pc \in {"pass1", "pass2"}

\* gzread(gzTarFile, ., n) at offset p meets the corrupt data
GzFails(p, n) == gzErrAt # -1 /\ p + n > gzErrAt

\* the number of bytes gzread(gzTarFile, ., n) at offset p yields
GzRead(p, n) == Min(n, Max(0, avail - p))

HeaderRead == Scanning /\ ~GzFails(pos, TAR_BLOCK_SIZE) /\ GzRead(pos, TAR_BLOCK_SIZE) = TAR_BLOCK_SIZE

stHeader == BlockAt(archive, pos)

\* a variant that knows the forward-slash form only
IsUnsafePathSlashOnly(szName) == strstr(szName, DotDotSlash)

IsUnsafePath(szName) == strstr(szName, DotDotSlash) \/ strstr(szName, DotDotBackslash)

IsRegularInTarget(h) ==
    (h.cTypeflag = "0" \/ h.cTypeflag = NUL) /\ bIsInDirectory(h.szName, TargetDir)

\* szFilename: the part of the name after the last '/'
BaseName(szName) == StrFrom(szName, strrchr(szName, "/") + 1)

\* the branch the loop body takes on header h, before any call of the matcher
RouteOf(h) ==
    IF Len(h.szName) = 0 THEN "end"
    ELSE IF IsUnsafePath(h.szName) THEN "unsafe"
    ELSE IF ~IsRegularInTarget(h) THEN "other"
    ELSE IF Len(BaseName(h.szName)) = 0 THEN "directory"
    ELSE "file"

\* what the loop body derives from header h: the branch, szFilename,
\* ulFileSize and nBlocks * TAR_BLOCK_SIZE
HeaderFacts(h) ==
    [route |-> RouteOf(h),
     szFilename |-> BaseName(h.szName),
     ulFileSize |-> LimbsToInt(ulParseOctal(h.szSize, 12)),
     skipBytes |-> LimbsToInt(nBlocksOf(ulParseOctal(h.szSize, 12))) * TAR_BLOCK_SIZE]

\* HeaderFacts of the headers of the pool, computed once
PoolFacts ==
    << HeaderFacts(HeaderBlock(1, 0)), HeaderFacts(HeaderBlock(2, 0)),
       HeaderFacts(HeaderBlock(3, 0)), HeaderFacts(HeaderBlock(4, 0)),
       HeaderFacts(HeaderBlock(5, 0)), HeaderFacts(HeaderBlock(6, 0)),
       HeaderFacts(HeaderBlock(7, 0)), HeaderFacts(HeaderBlock(8, 0)),
       HeaderFacts(HeaderBlock(9, 0)), HeaderFacts(HeaderBlock(10, 0)),
       HeaderFacts(HeaderBlock(11, 0)) >>

Facts(h) == IF h.pool # 0 THEN PoolFacts[h.pool] ELSE HeaderFacts(h)

\* what pfnMatcher returns for the pass that is running
MatcherAccepts(szFilename) ==
    IF pc = "pass1" THEN FALSE ELSE bExtractLatestFileMatcher(szFilename, stData)

\* the matcherDataT after the call of pfnMatcher
MatcherData(szFilename) ==
    IF pc = "pass1" THEN bLatestBdcDailyMatcher(szFilename, stData) ELSE stData

\* a history record: the pass, the offset the block was read at, the place in
\* the archive of the entry whose header the block is (0 when the block is
\* no header), and what the iteration did
Event(what) ==
    [pass |-> pc, pos |-> pos,
     idx |-> IF stHeader.pool # 0 THEN stHeader.idx ELSE 0, what |-> what]

\* a variant without the check of bFoundMatch after pass 1
ScanReturnsUnchecked(nRet) ==
    IF pc = "pass1" /\ nRet = 0
    THEN /\ pc' = "pass2"
         /\ pos' = 0
         /\ nResult' = nResult
    ELSE /\ pc' = "done"
         /\ pos' = pos
         /\ nResult' = nRet

\* the scan returns nRet to nExtractLatestBdcDailyFile, which returns it after
\* pass 2 or when it is an error, fails with -1 when pass 1 found no match,
\* and otherwise starts pass 2 on the reopened archive
ScanReturns(nRet) ==
    IF pc = "pass1" /\ nRet = 0 /\ stData.bFoundMatch
    THEN /\ pc' = "pass2"
         /\ pos' = 0
         /\ nResult' = nResult
    ELSE /\ pc' = "done"
         /\ pos' = pos
         /\ nResult' = IF pc = "pass1" /\ nRet = 0 THEN -1 ELSE nRet

\* gzseek(gzTarFile, nBlocks * TAR_BLOCK_SIZE, SEEK_CUR); continue;
SkipEntry(what) ==
    /\ pos' = pos + TAR_BLOCK_SIZE + Facts(stHeader).skipBytes
    /\ events' = Append(events, Event(what))
    /\ UNCHANGED <<archive, avail, gzErrAt, pc, nResult, printed, callVars>>

\* gzread of the header fails and gzeof is false: nRet = -1
ReadHeaderFails ==
    /\ Scanning
    /\ GzFails(pos, TAR_BLOCK_SIZE)
    /\ ScanReturns(-1)
    /\ events' = Append(events, [pass |-> pc, pos |-> pos, idx |-> 0, what |-> "error"])
    /\ UNCHANGED <<archive, avail, gzErrAt, stData, printed, winner, callVars>>

\* gzread of the header is short and gzeof is true: the loop ends, nRet = 0
ReadHeaderEof ==
    /\ Scanning
    /\ ~GzFails(pos, TAR_BLOCK_SIZE)
    /\ GzRead(pos, TAR_BLOCK_SIZE) # TAR_BLOCK_SIZE
    /\ ScanReturns(0)
    /\ events' = Append(events, [pass |-> pc, pos |-> pos, idx |-> 0, what |-> "eof"])
    /\ UNCHANGED <<archive, avail, gzErrAt, stData, printed, winner, callVars>>

\* the empty block: one more block is read and the loop ends
EndOfArchive ==
    /\ HeaderRead
    /\ Facts(stHeader).route = "end"
    /\ ScanReturns(0)
    /\ events' = Append(events, Event("end"))
    /\ UNCHANGED <<archive, avail, gzErrAt, stData, printed, winner, callVars>>

SkipUnsafePath ==
    /\ HeaderRead
    /\ Facts(stHeader).route = "unsafe"
    /\ SkipEntry("unsafe")
    /\ UNCHANGED <<stData, winner>>

\* not a regular file, or not in the target directory
SkipOther ==
    /\ HeaderRead
    /\ Facts(stHeader).route = "other"
    /\ SkipEntry("other")
    /\ UNCHANGED <<stData, winner>>

\* the filename is empty (directory entry)
SkipDirectoryEntry ==
    /\ HeaderRead
    /\ Facts(stHeader).route = "directory"
    /\ SkipEntry("directory")
    /\ UNCHANGED <<stData, winner>>

\* the matcher is called and says skip this file
MatcherDeclines ==
    /\ HeaderRead
    /\ Facts(stHeader).route = "file"
    /\ ~MatcherAccepts(Facts(stHeader).szFilename)
    /\ stData' = MatcherData(Facts(stHeader).szFilename)
    /\ winner' = IF stData' # stData THEN stHeader.idx ELSE winner
    /\ SkipEntry("declined")

MatcherAcceptsEntry ==
    /\ HeaderRead
    /\ Facts(stHeader).route = "file"
    /\ MatcherAccepts(Facts(stHeader).szFilename)

\* the chunked read of ulFileSize bytes gets every byte
ContentRead(h) ==
    LET n == Facts(h).ulFileSize
    IN  ~GzFails(pos + TAR_BLOCK_SIZE, n) /\ GzRead(pos + TAR_BLOCK_SIZE, n) = n

\* szCsvBuf as a C string
szCsvBuf(h) ==
    LET n == Facts(h).ulFileSize
        b == BlockAt(archive, pos + TAR_BLOCK_SIZE)
    IN  IF n = 0 THEN <<>> ELSE SubSeq(b.text, 1, Min(n, Len(b.text)))

\* what a call of the accessor can give; a call that reads outside its
\* working copy can give anything
CsvOutcomes(r) ==
    IF r.oob THEN {CsvReturn(x, <<>>) : x \in {0, -4, -6}} ELSE {r}

\* a chunk read gets fewer bytes than asked for: return -1
ExtractReadFails ==
    /\ MatcherAcceptsEntry
    /\ ~ContentRead(stHeader)
    /\ ScanReturns(-1)
    /\ events' = Append(events, Event("readfail"))
    /\ UNCHANGED <<archive, avail, gzErrAt, stData, printed, winner, callVars>>

\* one of the two calls of nGetCSVDataByColName fails: break
ExtractCsvFails ==
    /\ MatcherAcceptsEntry
    /\ ContentRead(stHeader)
    /\ \E r1 \in CsvOutcomes(nGetCSVDataByColName(szCsvBuf(stHeader), -1, ColTimeStamp,
                                                  MAX_BUFFER_SIZE)),
          r2 \in CsvOutcomes(nGetCSVDataByColName(szCsvBuf(stHeader), -1, ColCycleCount,
                                                  MAX_BUFFER_SIZE)) :
          r1.ret # 0 \/ r2.ret # 0
    /\ ScanReturns(0)
    /\ events' = Append(events, Event("csvfail"))
    /\ UNCHANGED <<archive, avail, gzErrAt, stData, printed, winner, callVars>>

\* both values are obtained and printed: break
ExtractPrints ==
    /\ MatcherAcceptsEntry
    /\ ContentRead(stHeader)
    /\ \E r1 \in CsvOutcomes(nGetCSVDataByColName(szCsvBuf(stHeader), -1, ColTimeStamp,
                                                  MAX_BUFFER_SIZE)),
          r2 \in CsvOutcomes(nGetCSVDataByColName(szCsvBuf(stHeader), -1, ColCycleCount,
                                                  MAX_BUFFER_SIZE)) :
          /\ r1.ret = 0
          /\ r2.ret = 0
          /\ printed' = <<[szBufferCycleCount |-> r2.szResult,
                           szBufferTimestamp |-> r1.szResult]>>
    /\ ScanReturns(0)
    /\ events' = Append(events, Event("extracted"))
    /\ UNCHANGED <<archive, avail, gzErrAt, stData, winner, callVars>>

Next ==
    \/ ReadHeaderFails
    \/ ReadHeaderEof
    \/ EndOfArchive
    \/ SkipUnsafePath
    \/ SkipOther
    \/ SkipDirectoryEntry
    \/ MatcherDeclines
    \/ ExtractReadFails
    \/ ExtractCsvFails
    \/ ExtractPrints

Spec == Init /\ [][Next]_vars

(***************************************************************************)
(* Single calls of the functions.  The scan is not running in these        *)
(* specifications; call holds the arguments and ret receives the result.   *)
(***************************************************************************)
NoScan ==
    /\ archive = <<>>
    /\ avail = 0
    /\ gzErrAt = -1
    /\ pc = "done"
    /\ pos = 0
    /\ stData = InitialData
    /\ nResult = 0
    /\ printed = <<>>
    /\ winner = 0
    /\ events = <<>>

\* the sequences over S of length at most n
SeqsUpTo(S, n) == UNION {[1..k -> S] : k \in 0..n}

(***************************************************************************)
(* Calls of nGetCSVDataByColName                                           *)
(***************************************************************************)
MaxRowLen == 3

CsvAlphabet == {COMMA, QUOTE, SP, TAB, CR, "x"}

\* header lines that name the columns a and b
CsvHeaders ==
    { <<"a", COMMA, "b">>,
      <<"a", COMMA, "b", CR>>,
      <<QUOTE, "a", QUOTE, COMMA, SP, "b">> }

\* the rows before the last row: none, or one row
CsvLeadingRows == { <<>>, <<"y", COMMA, "z", LF>> }

\* a header line, the rows, and the last row with or without its newline
CsvTexts ==
    { h \o <<LF>> \o lead \o row \o nl :
        h \in CsvHeaders, lead \in CsvLeadingRows,
        row \in SeqsUpTo(CsvAlphabet, MaxRowLen), nl \in {<<>>, <<LF>>} }

CsvCalls ==
    [fn : {"csv"}, szCsvBuffer : CsvTexts, nRow : {-1, 0, 1},
     szColName : {<<"a">>, <<"b">>, <<"c">>}, nBufSize : {3, MAX_BUFFER_SIZE}]

InitCsv == NoScan /\ call \in CsvCalls /\ ret = <<>>

CallCsv ==
    /\ call.fn = "csv"
    /\ ret = <<>>
    /\ \E r \in CsvOutcomes(nGetCSVDataByColName(call.szCsvBuffer, call.nRow,
                                                 call.szColName, call.nBufSize)) :
          ret' = <<r>>
    /\ UNCHANGED <<call, archVars>>

SpecCsv == InitCsv /\ [][CallCsv]_vars

(***************************************************************************)
(* Calls of nGetCSVDataByColName on texts at its limits: a header line of  *)
(* about MAX_COLUMNS columns, and a text without any newline               *)
(***************************************************************************)
\* a line of n fields: the field at place p is name, every other is other
WideLine(n, p, name, other) ==
    [i \in 1..(2 * n - 1) |->
        IF i % 2 = 0 THEN COMMA ELSE IF (i + 1) \div 2 = p THEN name ELSE other]

\* a header of n columns, the one at place p named a, and one row
WideTexts ==
    UNION { { WideLine(n, p, "a", "x") \o <<LF>> \o WideLine(n, p, "1", "0") \o <<LF>> :
                p \in {q \in {1, MAX_COLUMNS, MAX_COLUMNS + 1, MAX_COLUMNS + 2} : q <= n} } :
            n \in (MAX_COLUMNS - 1)..(MAX_COLUMNS + 2) }

\* texts that end with the header line: no newline at all
HeaderOnlyTexts ==
    { <<>>,
      <<"a">>,
      <<"x">>,
      <<"a", COMMA, "b">>,
      <<"b", COMMA, "a">>,
      <<"a", COMMA, "b", CR>>,
      <<QUOTE, "a", QUOTE, COMMA, SP, "b">> }

CsvEdgeCalls ==
    [fn : {"csv"}, szCsvBuffer : WideTexts \cup HeaderOnlyTexts, nRow : {-1, 0, 1},
     szColName : {<<>>, <<"a">>, <<"b">>, <<"x">>}, nBufSize : {3, MAX_BUFFER_SIZE}]

InitCsvEdge == NoScan /\ call \in CsvEdgeCalls /\ ret = <<>>

SpecCsvEdge == InitCsvEdge /\ [][CallCsv]_vars

(***************************************************************************)
(* Calls of bParseDate: two texts, as pass 1 parses one name after another *)
(***************************************************************************)
Dec2(n) == <<DigitChars[(n \div 10) + 1], DigitChars[(n % 10) + 1]>>

Dec4(n) == Dec2(n \div 100) \o Dec2(n % 100)

\* the text YYYY-MM-DD_HH:MM:SS of six fields
DateTextOf(f) ==
    Dec4(f[1]) \o <<"-">> \o Dec2(f[2]) \o <<"-">> \o Dec2(f[3]) \o <<"_">> \o
    Dec2(f[4]) \o <<":">> \o Dec2(f[5]) \o <<":">> \o Dec2(f[6])

DateTuples ==
    { <<y, m, d, t[1], t[2], t[3]>> :
        y \in {1969, 1970, 2024, 2100}, m \in {1, 2, 3, 12, 13}, d \in {1, 29, 31},
        t \in {<<0, 0, 0>>, <<23, 59, 59>>} }

\* texts that do not have the shape: a one-digit month, a sign, a padding
\* space, characters after the seconds, a wrong separator, a missing field
OddDateTexts ==
    { <<"2", "0", "2", "5", "-", "5", "-", "1", "4", "_", "2", "0", ":", "3", "0", ":",
        "4", "5">>,
      <<"+", "2", "0", "2", "5", "-", "0", "5", "-", "1", "4", "_", "2", "0", ":", "3",
        "0", ":", "4", "5">>,
      <<"2", "0", "2", "5", "-", "0", "5", "-", "1", "4", "_", SP, "2", "0", ":", "3",
        "0", ":", "4", "5">>,
      DateTextOf(<<2025, 5, 14, 20, 30, 45>>) \o ExtCsv,
      <<"2", "0", "2", "5", "/", "0", "5", "/", "1", "4", "_", "2", "0", ":", "3", "0",
        ":", "4", "5">>,
      <<"2", "0", "2", "5", "-", "0", "5", "-", "1", "4", "_", "2", "0", ":", "3", "0">>,
      TextBad,
      <<>> }

DateTexts == {DateTextOf(f) : f \in DateTuples} \cup OddDateTexts

DateCalls == [fn : {"date"}, szDateStr : DateTexts, szDateStr2 : DateTexts]

InitDate == NoScan /\ call \in DateCalls /\ ret = <<>>

CallDate ==
    /\ call.fn = "date"
    /\ ret = <<>>
    /\ ret' = <<bParseDate(call.szDateStr), bParseDate(call.szDateStr2)>>
    /\ UNCHANGED <<call, archVars>>

SpecDate == InitDate /\ [][CallDate]_vars

(***************************************************************************)
(* Calls of ulParseOctal on a 12-byte size field, and the block count the  *)
(* scan computes from the result                                           *)
(***************************************************************************)
RECURSIVE Repeat(_, _)
Repeat(c, n) == IF n <= 0 THEN <<>> ELSE <<c>> \o Repeat(c, n - 1)

\* padding, a first digit, n - 1 more digits, what ends the run, NUL bytes
SizeFields ==
    { SubSeq(pad \o <<lead>> \o Repeat(fill, n - 1) \o stop \o Repeat(NUL, 12), 1, 12) :
        pad \in {<<>>, <<SP>>, <<NUL, SP>>}, lead \in {"0", "1", "3", "4", "7", "8"},
        fill \in {"0", "7"}, n \in 1..12, stop \in {<<>>, <<SP, "7">>, <<"9", "1">>} }

OctalCalls == [fn : {"octal"}, szStr : SizeFields]

InitOctal == NoScan /\ call \in OctalCalls /\ ret = <<>>

CallOctal ==
    /\ call.fn = "octal"
    /\ ret = <<>>
    /\ ret' = <<[ulFileSize |-> ulParseOctal(call.szStr, 12),
                 nBlocks |-> nBlocksOf(ulParseOctal(call.szStr, 12))]>>
    /\ UNCHANGED <<call, archVars>>

SpecOctal == InitOctal /\ [][CallOctal]_vars

(***************************************************************************)
(* The skip of an entry: the header is read at an offset of the stream,    *)
(* and gzseek moves on by nBlocks * TAR_BLOCK_SIZE.  Offsets are kept as   *)
(* limbs, so that an entry of any size a size field can hold has its place *)
(***************************************************************************)
\* the offsets of the headers that are skipped: the first block, the second,
\* one further on
SkipCalls == [fn : {"skip"}, szStr : SizeFields, nHeaderOffset : {0, 512, 4096}]

InitSkip == NoScan /\ call \in SkipCalls /\ ret = <<>>

\* the offset of gzTarFile after gzread of the header at nHeaderOffset and
\* gzseek(gzTarFile, nBlocks * TAR_BLOCK_SIZE, SEEK_CUR); the product is a
\* size_t
OffsetAfterSkip(nHeaderOffset, szSize) ==
    MulAddLimbs(ToLimbs(nBlocksOf(ulParseOctal(szSize, 12)), ExactLimbs), TAR_BLOCK_SIZE,
                nHeaderOffset + TAR_BLOCK_SIZE, 1)

CallSkip ==
    /\ call.fn = "skip"
    /\ ret = <<>>
    /\ ret' = <<[pos |-> OffsetAfterSkip(call.nHeaderOffset, call.szStr)]>>
    /\ UNCHANGED <<call, archVars>>

SpecSkip == InitSkip /\ [][CallSkip]_vars

(***************************************************************************)
(* Properties of the scan.  What a claim says about an entry is stated on  *)
(* the entry's name, independently of the operators the scan uses.         *)
(***************************************************************************)
EntryAt(i) == EntryPool[archive[i]]

\* the header of entry i is in the part of the stream the reader gets
HeaderVisible(i) ==
    /\ HeaderOffset(archive, i) + TAR_BLOCK_SIZE <= avail
    /\ (gzErrAt = -1 \/ HeaderOffset(archive, i) + TAR_BLOCK_SIZE <= gzErrAt)

HasTraversal(szName) ==
    \E i \in 1..(Len(szName) - 2) :
        /\ szName[i] = "."
        /\ szName[i + 1] = "."
        /\ szName[i + 2] \in {"/", "\\"}

StartsWith(s, p) == Len(s) >= Len(p) /\ SubSeq(s, 1, Len(p)) = p

\* the name after its last '/'
FileNameOf(szName) ==
    LET slashes == {i \in 1..Len(szName) : szName[i] = "/"}
    IN  IF slashes = {} THEN szName
        ELSE SubSeq(szName, (CHOOSE i \in slashes : \A j \in slashes : j <= i) + 1,
                    Len(szName))

\* the date text of a file name with the prefix: what follows the first '_'
\* after the prefix
EmbeddedDate(szFilename) ==
    LET rest == SubSeq(szFilename, Len(szPrefix) + 1, Len(szFilename))
        us == {i \in 1..Len(rest) : rest[i] = "_"}
    IN  IF us = {} THEN <<FALSE, <<>>>>
        ELSE <<TRUE, SubSeq(rest, (CHOOSE i \in us : \A j \in us : i <= j) + 1, Len(rest))>>

\* per pool entry: is it a candidate of the selection, and with which instant
CandidateOf(e) ==
    LET fn == FileNameOf(e.szName)
        dp == EmbeddedDate(fn)
        d == bParseDate(dp[2])
    IN  [regular |-> e.cTypeflag \in {"0", NUL},
         inTarget |-> StartsWith(e.szName, TargetDir),
         traversal |-> HasTraversal(e.szName),
         named |-> StartsWith(fn, szPrefix),
         parses |-> StartsWith(fn, szPrefix) /\ dp[1] /\ d.ok,
         szFilename |-> fn,
         instant |-> d.tTimestamp]

PoolCandidates == [k \in 1..Len(EntryPool) |-> CandidateOf(EntryPool[k])]

Cand(i) == PoolCandidates[archive[i]]

\* the entries the claim ranks, as the claim words them
RankedAsClaimed ==
    {i \in 1..Len(archive) :
        HeaderVisible(i) /\ Cand(i).regular /\ Cand(i).inTarget /\ Cand(i).parses}

\* the same, without the entries whose path has a traversal sequence
Ranked == {i \in RankedAsClaimed : ~Cand(i).traversal}

\* i is the first entry of E, in archive order, with the greatest instant
IsFirstGreatest(i, E) ==
    /\ i \in E
    /\ \A j \in E : ~TimeGreater(Cand(j).instant, Cand(i).instant)
    /\ \A j \in E : j < i => TimeGreater(Cand(i).instant, Cand(j).instant)

\* the record of pass 1 is the first greatest entry of E (none when E is empty)
RecordIsFirstGreatest(E) ==
    IF E = {} THEN ~stData.bFoundMatch /\ winner = 0
    ELSE /\ stData.bFoundMatch
         /\ IsFirstGreatest(winner, E)
         /\ stData.stLatestFile.szFilename = Cand(winner).szFilename
         /\ stData.stLatestFile.tTimestamp = Cand(winner).instant

Pass1Ended == pc # "pass1"

Pass1Error == \E k \in 1..Len(events) : events[k].pass = "pass1" /\ events[k].what = "error"

HasCandidateName(i) == Cand(i).inTarget /\ Cand(i).parses

NoCandidateSeen == \A i \in 1..Len(archive) : HeaderVisible(i) => ~HasCandidateName(i)

ContentEvents == {"extracted", "csvfail", "readfail"}

\* C2: if pass 1 finishes without error and no entry under the target
\* directory had a base filename with the prefix and a date that parses, the
\* run is over with the non-zero NoMatchingFile result (-1), pass 2 was never
\* started and no content was read.
C2_NoMatchFailsBeforePass2 ==
    (Pass1Ended /\ ~Pass1Error /\ NoCandidateSeen) =>
        /\ pc = "done"
        /\ nResult = -1
        /\ \A k \in 1..Len(events) :
              events[k].pass = "pass1" /\ events[k].what \notin ContentEvents

\* C2 witness: pass 1 went through an archive of two entries or more, to its
\* end blocks, in which every name with the prefix is malformed.
C2_Witness ==
    /\ pc = "done"
    /\ ~Pass1Error
    /\ NoCandidateSeen
    /\ Len(archive) >= 2
    /\ \E i \in 1..Len(archive) : Cand(i).inTarget /\ Cand(i).named /\ ~Cand(i).parses
    /\ events[Len(events)].what = "end"

\* C5: every failure of a CSV access on the winning entry reaches the caller
\* as a non-zero status, and a run returns 0 only if both values were
\* obtained.
C5_CsvFailureIsNonZero ==
    pc = "done" =>
        /\ ((\E k \in 1..Len(events) : events[k].what = "csvfail") => nResult # 0)
        /\ (nResult = 0 => printed # <<>>)

\* the offset just after the data blocks of entry i
AfterEntry(i) ==
    HeaderOffset(archive, i)
    + TAR_BLOCK_SIZE * (1 + ((EntryAt(i).nSize + TAR_BLOCK_SIZE - 1) \div TAR_BLOCK_SIZE))

\* the iteration recorded as event k went on to the header after entry i
ContinuesAfter(k, i) ==
    IF k < Len(events)
    THEN events[k + 1].pass = events[k].pass /\ events[k + 1].pos = AfterEntry(i)
    ELSE pc = events[k].pass /\ pos = AfterEntry(i)

\* C6: in every scan an entry whose name contains "../" or "..\" is skipped:
\* the iteration on its header is the unsafe-path skip (no matcher call, no
\* content read), and the scan goes on at the header that follows its data
\* blocks.
C6_UnsafeEntryAlwaysSkipped ==
    \A k \in 1..Len(events) :
        (events[k].idx # 0 /\ Cand(events[k].idx).traversal) =>
            /\ events[k].what = "unsafe"
            /\ ContinuesAfter(k, events[k].idx)

\* C6 witness: a scan skipped an unsafe entry that has data blocks and then
\* called the matcher for the entry after it.
C6_Witness ==
    \E k \in 1..(Len(events) - 1) :
        /\ events[k].what = "unsafe"
        /\ EntryAt(events[k].idx).nSize > 0
        /\ events[k + 1].what \in {"declined", "extracted"}
        /\ events[k + 1].idx = events[k].idx + 1

\* the header of entry i is read, and the stream ends before all the data
\* bytes it declares
DataCutOff(i) ==
    /\ HeaderVisible(i)
    /\ HeaderOffset(archive, i) + TAR_BLOCK_SIZE + EntryAt(i).nSize > avail

\* C7: a truncated archive is never reported as success: a scan that meets an
\* entry whose declared data bytes are not all in the stream, extracted or
\* skipped, returns non-zero (so pass 2 is not started after such a pass 1,
\* and the run does not return 0).
C7_TruncationIsAnError ==
    (\E i \in 1..Len(archive) : DataCutOff(i)) =>
        /\ pc # "pass2"
        /\ (pc = "done" => nResult # 0)

(***************************************************************************)
(* Properties of nGetCSVDataByColName                                      *)
(***************************************************************************)
\* the position of the last newline of a text, 0 when it has none
LastNewline(text) ==
    LET nls == {i \in 1..Len(text) : text[i] = LF}
    IN  IF nls = {} THEN 0 ELSE CHOOSE i \in nls : \A j \in nls : j <= i

FirstNewline(text) ==
    LET nls == {i \in 1..Len(text) : text[i] = LF}
    IN  IF nls = {} THEN 0 ELSE CHOOSE i \in nls : \A j \in nls : i <= j

\* the text made of the header line of a text and of its last line alone
HeaderAndLastLine(text) ==
    SubSeq(text, 1, FirstNewline(text)) \o SubSeq(text, LastNewline(text) + 1, Len(text))

CallDone(fn) == call.fn = fn /\ ret # <<>>

\* C3: with the row selector Last, for a text T with a header and a data
\* row that does not end in a newline, the value returned for T is the one
\* returned for T followed by a newline, and it is the value of T's last
\* line.
C3_LastRowWithoutNewline ==
    (/\ CallDone("csv")
     /\ call.nRow = -1
     /\ call.nBufSize = MAX_BUFFER_SIZE
     /\ FirstNewline(call.szCsvBuffer) # 0
     /\ call.szCsvBuffer[Len(call.szCsvBuffer)] # LF) =>
        /\ ret[1] = nGetCSVDataByColName(call.szCsvBuffer \o <<LF>>, -1, call.szColName,
                                         call.nBufSize)
        /\ ret[1] = nGetCSVDataByColName(HeaderAndLastLine(call.szCsvBuffer), 0,
                                         call.szColName, call.nBufSize)

RECURSIVE RefSplit(_, _, _, _)
\* the fields of a line: split at the commas that are outside an open quote
RefSplit(line, i, inQuotes, field) ==
    IF i > Len(line) THEN <<field>>
    ELSE IF line[i] = COMMA /\ ~inQuotes
    THEN <<field>> \o RefSplit(line, i + 1, inQuotes, <<>>)
    ELSE RefSplit(line, i + 1, IF line[i] = QUOTE THEN ~inQuotes ELSE inQuotes,
                  Append(field, line[i]))

RECURSIVE RefStripLeft(_)
RefStripLeft(s) ==
    IF Len(s) > 0 /\ s[1] \in {SP, TAB} THEN RefStripLeft(Tail(s)) ELSE s

RECURSIVE RefStripRight(_)
RefStripRight(s) ==
    IF Len(s) > 0 /\ s[Len(s)] \in {SP, TAB, CR}
    THEN RefStripRight(SubSeq(s, 1, Len(s) - 1))
    ELSE s

\* a field without its double quotes, surrounding spaces and tabs, trailing CR
RefClean(field) == RefStripRight(RefStripLeft(SelectSeq(field, LAMBDA c : c # QUOTE)))

\* the reference result for row 0 of a text of a header line and one row
RefGet(text, szColName) ==
    LET nl == FirstNewline(text)
        names == RefSplit(SubSeq(text, 1, nl - 1), 1, FALSE, <<>>)
        row == SubSeq(text, nl + 1, Len(text))
        line == IF Len(row) > 0 /\ row[Len(row)] = LF THEN SubSeq(row, 1, Len(row) - 1)
                ELSE row
        fields == RefSplit(line, 1, FALSE, <<>>)
        hits == {k \in 1..Len(names) : RefClean(names[k]) = szColName}
        col == CHOOSE k \in hits : \A j \in hits : k <= j
    IN  IF hits = {} THEN CsvReturn(-3, <<>>)
        ELSE IF col > Len(fields) THEN CsvReturn(-4, <<>>)
        ELSE CsvReturn(0, RefClean(fields[col]))

\* C4: for a header line and a data row over the alphabet, the value returned
\* for a column is the reference result (the field at the column's index of
\* the line split at commas outside quotes, without any double quote,
\* without surrounding spaces and tabs and trailing CR); it holds no double
\* quote and is never a lone CR.
C4_ValueIsReferenceField ==
    (/\ CallDone("csv")
     /\ call.nRow = 0
     /\ call.nBufSize = MAX_BUFFER_SIZE
     /\ LastNewline(call.szCsvBuffer) = Len(call.szCsvBuffer)
     /\ Len(SelectSeq(call.szCsvBuffer, LAMBDA c : c = LF)) = 2) =>
        /\ ret[1] = RefGet(call.szCsvBuffer, call.szColName)
        /\ \A i \in 1..Len(ret[1].szResult) : ret[1].szResult[i] # QUOTE
        /\ ret[1].szResult # <<CR>>

(***************************************************************************)
(* Properties of bParseDate                                                *)
(***************************************************************************)
\* YYYY-MM-DD_HH:MM:SS and nothing else
HasDateShape(s) ==
    /\ Len(s) = 19
    /\ \A i \in {1, 2, 3, 4, 6, 7, 9, 10, 12, 13, 15, 16, 18, 19} : IsDigit(s[i])
    /\ s[5] = "-" /\ s[8] = "-" /\ s[11] = "_" /\ s[14] = ":" /\ s[17] = ":"

\* C8: bParseDate succeeds only for a text of exactly the shape
\* YYYY-MM-DD_HH:MM:SS; every other text fails.
C8_OnlyExactShapeParses ==
    CallDone("date") => (ret[1].ok => HasDateShape(call.szDateStr))

RECURSIVE LexLess(_, _, _)
\* f is before g in the lexicographic order, compared from field k on
LexLess(f, g, k) ==
    IF k > Len(f) THEN FALSE
    ELSE f[k] < g[k] \/ (f[k] = g[k] /\ LexLess(f, g, k + 1))

\* C9: for two field tuples that pass the range checks, the lexicographically
\* smaller one has the strictly smaller instant, and equal tuples have equal
\* instants.
C9_InstantIsMonotonic ==
    (CallDone("date") /\ ret[1].ok /\ ret[2].ok) =>
        /\ (LexLess(ret[1].f, ret[2].f, 1) =>
               TimeGreater(ret[2].tTimestamp, ret[1].tTimestamp))
        /\ (ret[1].f = ret[2].f => ret[1].tTimestamp = ret[2].tTimestamp)

(***************************************************************************)
(* Properties of ulParseOctal                                              *)
(***************************************************************************)
RECURSIVE LeadingOctalRun(_, _)
\* the octal digits at the head of the field, from position i
LeadingOctalRun(szStr, i) ==
    IF i <= Len(szStr) /\ szStr[i] \in {"0", "1", "2", "3", "4", "5", "6", "7"}
    THEN <<szStr[i]>> \o LeadingOctalRun(szStr, i + 1)
    ELSE <<>>

RECURSIVE PadLength(_, _)
PadLength(szStr, i) ==
    IF i <= Len(szStr) /\ szStr[i] \in {SP, NUL} THEN PadLength(szStr, i + 1) ELSE i - 1

RECURSIVE ExactValueOf(_, _)
\* the value of a run of octal digits, on ExactLimbs limbs: no digit is lost
ExactValueOf(run, k) ==
    IF k = 0 THEN ZeroLimbs(ExactLimbs)
    ELSE MulAddLimbs(ExactValueOf(run, k - 1), 8, DigitVal(run[k]), 1)

ExactSize(szStr) ==
    LET run == LeadingOctalRun(szStr, PadLength(szStr, 1) + 1)
    IN  ExactValueOf(run, Len(run))

FitsULong(v) == \A k \in (ULONG_LIMBS + 1)..Len(v) : v[k] = 0

\* ceil(v / 512), computed without loss
ExactBlocks(v) ==
    DivLimbs(AddLimbs(ToLimbs(v, ExactLimbs), TAR_BLOCK_SIZE - 1, 1), TAR_BLOCK_SIZE, 0,
             ExactLimbs)

\* C10: for a 12-byte size field ulParseOctal yields the exact value of the
\* leading octal digit run when it fits an unsigned long, and otherwise not
\* that value reduced modulo 2^w; the block count is ceil(size / 512) of the
\* decoded size.
C10_OctalNeverWraps ==
    CallDone("octal") =>
        /\ (FitsULong(ExactSize(call.szStr)) =>
               ret[1].ulFileSize = ToLimbs(ExactSize(call.szStr), ULONG_LIMBS))
        /\ (~FitsULong(ExactSize(call.szStr)) =>
               ret[1].ulFileSize # ToLimbs(ExactSize(call.szStr), ULONG_LIMBS))
        /\ ToLimbs(ret[1].nBlocks, ExactLimbs) = ExactBlocks(ret[1].ulFileSize)

(***************************************************************************)
(* Properties of nGetCSVDataByColName: the caller's buffer                 *)
(***************************************************************************)
\* the trimmed value of the target field: what the call gives to a caller
\* whose buffer holds any value
FullValue == nGetCSVDataByColName(call.szCsvBuffer, call.nRow, call.szColName,
                                  MAX_BUFFER_SIZE)

\* C11: when the trimmed value of the target field is at least as long as
\* the capacity of the caller's buffer, the call succeeds (returns 0) and
\* the buffer holds the first capacity - 1 characters of the value.
C11_TruncationIsSuccess ==
    (/\ CallDone("csv")
     /\ FullValue.ret = 0
     /\ ~FullValue.oob
     /\ Len(FullValue.szResult) >= call.nBufSize) =>
        /\ ret[1].ret = 0
        /\ ret[1].szResult = SubSeq(FullValue.szResult, 1, call.nBufSize - 1)

(***************************************************************************)
(* Properties of nGetCSVDataByColName at its limits                        *)
(***************************************************************************)
\* the number of columns of the header line of a text: one more than its
\* commas outside quotes
HeaderColumnCount(text) ==
    LET nl == FirstNewline(text)
        line == IF nl = 0 THEN text ELSE SubSeq(text, 1, nl - 1)
        outside(i) == Cardinality({j \in 1..(i - 1) : line[j] = QUOTE}) % 2 = 0
    IN  Cardinality({i \in 1..Len(line) : line[i] = COMMA /\ outside(i)}) + 1

\* the values the function returns for the other outcomes: success, invalid
\* parameters, allocation, column not found, column not in the row, row not
\* found, copy failure
OtherCsvOutcomes == {0, -1, -2, -3, -4, -5, -6}

\* C12: when the header line has more than MAX_COLUMNS columns, the call
\* fails with an error of its own (TooManyColumns: neither success nor the
\* value of another failure), whatever column is asked for, before or after
\* the ceiling.
C12_TooManyColumnsFails ==
    (CallDone("csv") /\ HeaderColumnCount(call.szCsvBuffer) > MAX_COLUMNS) =>
        ret[1].ret \notin OtherCsvOutcomes

\* C15: for every text, also one without any newline and the empty one, and
\* every row selector, the call stays within positions 0..len of its working
\* copy: its row pointer is never moved past the terminator.
C15_StaysInsideWorkingCopy ==
    CallDone("csv") =>
        ~nGetCSVDataByColName(call.szCsvBuffer, call.nRow, call.szColName,
                              call.nBufSize).oob

(***************************************************************************)
(* Properties of the two passes together                                   *)
(***************************************************************************)
\* the iterations in which the content of an entry was read into szCsvBuf
ContentReads == {k \in 1..Len(events) : events[k].what \in ContentEvents}

Pass2Ended == pc = "done" /\ \E k \in 1..Len(events) : events[k].pass = "pass2"

\* C13: no content is read into a buffer during pass 1; and when pass 1
\* recorded a winner and pass 2 has scanned the same archive, the content of
\* exactly one entry was read in the whole run, in pass 2, and that entry is
\* the one at the place pass 1 recorded (on a complete stream the read gets
\* all of its content).
C13_Pass2ExtractsPass1Winner ==
    /\ \A k \in ContentReads : events[k].pass = "pass2"
    /\ Pass2Ended =>
          /\ winner # 0
          /\ \E k \in ContentReads :
                /\ ContentReads = {k}
                /\ events[k].idx = winner
                /\ (avail = StreamBytes(archive) => events[k].what # "readfail")

\* C13 witness: pass 2 extracted the entry pass 1 recorded, which is not the
\* first entry with the prefix and is followed by an entry of the same base
\* filename in another directory.
C13_Witness ==
    /\ Pass2Ended
    /\ Len(archive) = 3
    /\ winner = 2
    /\ Cand(1).parses /\ 1 \in Ranked
    /\ 3 \in Ranked /\ Cand(3).szFilename = Cand(2).szFilename
    /\ \E k \in ContentReads : events[k].idx = 2 /\ events[k].what = "extracted"

(***************************************************************************)
(* Properties of the skip of an entry                                      *)
(***************************************************************************)
\* a size field as a tar writer stores it: octal digits (after spaces, in
\* old archives), then only NUL or space up to the end of the field
WellFormedSizeField(szStr) ==
    LET pad == PadLength(szStr, 1)
        run == LeadingOctalRun(szStr, pad + 1)
    IN  /\ \A i \in 1..pad : szStr[i] = SP
        /\ Len(run) >= 1
        /\ pad + Len(run) < Len(szStr)
        /\ \A i \in (pad + Len(run) + 1)..Len(szStr) : szStr[i] \in {SP, NUL}

\* header offset + 512 + 512 * ceil(size / 512), computed without loss
NextHeaderOffset(nHeaderOffset, szStr) ==
    MulAddLimbs(ExactBlocks(ExactSize(szStr)), TAR_BLOCK_SIZE,
                nHeaderOffset + TAR_BLOCK_SIZE, 1)

\* C14: a header is read at a multiple of 512, and after a skipped entry of
\* a well-formed archive the next header is read at a multiple of 512 that
\* is exactly the entry's header offset + 512 + 512 * ceil(size / 512), so
\* that no data or padding byte is taken for a header.
C14_NextHeaderAfterSkip ==
    (CallDone("skip") /\ WellFormedSizeField(call.szStr)) =>
        /\ call.nHeaderOffset % TAR_BLOCK_SIZE = 0
        /\ ret[1].pos[1] % TAR_BLOCK_SIZE = 0
        /\ ret[1].pos = NextHeaderOffset(call.nHeaderOffset, call.szStr)

=============================================================================
